---- MODULE Spec2Model ----
(***************************************************************************)
(* Trajectory samplers of gpvolve / evotpt:                                *)
(*   monte_carlo                       src/gpvolve/evolve/mc.py  8-96      *)
(*   monte_carlo_metropolis_criterion  src/gpvolve/evolve/mc.py  98-157    *)
(*   MarkovChain.simulate              src/evotpt/mcmc_path_sampling.py    *)
(* One call of one sampler per behaviour; one action per loop iteration    *)
(* and one per loop exit.                                                  *)
(***************************************************************************)
EXTENDS Integers, Sequences, FiniteSets, TLC

VARIABLES
    walker,       \* which function was called: "mc", "mmc" or "chain"
    gpm,          \* [sites, phenotypes]: the genotype-phenotype map
    source, target, model,
    ceiling,      \* max_moves (mc) or max_fails (mmc)
    forward, return_bad,
    tm, mutant,   \* MarkovChain: transition matrix and mutant set
    visited,      \* the trajectory tuple (mc, mmc) or log["path"] (chain)
    counter,      \* nmoves (mc), fails (mmc), number of draws (chain)
    asked,        \* arguments of the last neighbor-enumerator call, or <<>>
    pc,           \* "loop" while the call runs, "done" when it has ended
    outcome,      \* "none", "return", or the kind of error raised
    message       \* the trajectory printed in the error message, or <<>>

inputs == <<walker, gpm, source, target, model, ceiling, forward, return_bad,
            tm, mutant>>
vars == <<walker, gpm, source, target, model, ceiling, forward, return_bad,
          tm, mutant, visited, counter, asked, pc, outcome, message>>

----------------------------------------------------------------------------
(* Bounds of the model. *)

\* largest ceiling (max_moves, max_fails) a call is given; the least is -1
MaxCeil == 2
\* a matrix walk is cut off when its path holds MaxLen entries
MaxLen == 4
\* a Metropolis walk is cut off after MaxAccept accepted proposals
MaxAccept == 2

----------------------------------------------------------------------------
(* Numbers.  A probability is an integer count of Tiny-sized quanta:       *)
(* One stands for 1.0, Half for 0.5, Tiny for a positive double far below  *)
(* the spacing of doubles near 1 (such as 1e-20); NaN is not a number.     *)
(* Grain is the spacing of doubles near 1 on this scale: a double          *)
(* operation whose exact result is Grain or more is rounded to the nearest *)
(* multiple of Grain, which is what absorbs a Tiny term added to 0.5.      *)

Grain == 1000
One == 24 * Grain
Half == 12 * Grain
Tiny == 12
NaN == -1

\* a double result, rounded
Fl(v) == IF v >= Grain THEN ((v + (Grain \div 2)) \div Grain) * Grain ELSE v

\* np.nan_to_num on one element
nan_to_num(x) == IF x = NaN THEN 0 ELSE x

RECURSIVE SumSeq(_)
\* Python's sum / ndarray.sum, left to right in double arithmetic
SumSeq(s) == IF s = <<>> THEN 0
             ELSE Fl(SumSeq(SubSeq(s, 1, Len(s) - 1)) + s[Len(s)])

----------------------------------------------------------------------------
(* The genotype-phenotype map and its collaborators. *)

Sites == {1, 2}
Genotypes(L) == [1..L -> {0, 1}]
Phenotypes == {1, 2}
Last(s) == s[Len(s)]

hamming_distance(a, b) == Cardinality({i \in DOMAIN a : a[i] # b[i]})

\* get_neighbors(genotype, mutations): one genotype per mutable site, in
\* site order
get_neighbors(g) == [i \in 1..Len(g) |-> [g EXCEPT ![i] = 1 - g[i]]]

\* get_forward_neighbors(x, genotype, mutations): the neighbors of genotype
\* strictly closer to x
get_forward_neighbors(x, g) ==
    SelectSeq(get_neighbors(g),
              LAMBDA n : hamming_distance(n, x) < hamming_distance(g, x))

\* The fixation models a caller may plug in: each maps two fitness values
\* to a probability in [0,1] or to NaN.
Models == {"strict", "neutral", "half", "moran"}
Fixation(m, f0, f1) ==
    CASE m = "strict"  -> IF f1 > f0 THEN One ELSE 0
      [] m = "neutral" -> IF f1 >= f0 THEN One ELSE 0
      [] m = "half"    -> Half
      [] m = "moran"   -> IF f1 > f0 THEN Half
                          ELSE IF f1 = f0 THEN NaN ELSE Tiny

----------------------------------------------------------------------------
(* monte_carlo *)

\* the neighbor enumerator's arguments before current and gpm.mutations
args == IF forward THEN <<source>> ELSE <<>>

\* lines 65-69 enumerating around the first genotype instead of current
neighbors_of_Source(current) ==
    IF forward THEN get_forward_neighbors(args[1], visited[1])
    ELSE get_neighbors(visited[1])

\* lines 55-69: neighbors
neighbors_of(current) ==
    IF forward THEN get_forward_neighbors(args[1], current)
    ELSE get_neighbors(current)

fixations_of(current) ==
    LET nb == neighbors_of(current)
    IN  [i \in 1..Len(nb) |->
            nan_to_num(Fixation(model, gpm.phenotypes[current],
                                gpm.phenotypes[nb[i]]))]

\* fixations / (len(neighbors) + 1)
trans_prob_of(current) ==
    LET fx == fixations_of(current)
    IN  [i \in 1..Len(fx) |-> fx[i] \div (Len(fx) + 1)]

self_prob_of(current) == Fl(One - SumSeq(trans_prob_of(current)))

probs_of(current) == Append(trans_prob_of(current), self_prob_of(current))

\* sum(probs[:i+1]) * 100 for each i
cumulative_dist_of(current) ==
    LET p == probs_of(current)
    IN  [i \in 1..Len(p) |-> SumSeq(SubSeq(p, 1, i)) * 100]

\* the values np.random.uniform(0,100) is drawn from: 0, values below and
\* between the Tiny-sized cumulative values, and every multiple of a Grain
MCNumbers == {100 * d : d \in {0, 2, 4, 5, 6, 7, 8, 10}}
             \cup {100 * Grain * k : k \in 1..23} \cup {100 * One - 1}

\* moves[cumulative_dist >= mc_number][0]
Pick(moves, cum, mc_number) ==
    moves[CHOOSE i \in 1..Len(moves) :
            /\ cum[i] >= mc_number
            /\ \A j \in 1..(i - 1) : cum[j] < mc_number]

\* the loop condition of line 63 without the test of the ceiling
MCInLoop_NoCeiling == Last(visited) # target

\* the loop condition of line 63 with < for <=
MCInLoop_StrictCeiling == Last(visited) # target /\ counter < ceiling

\* line 63: the loop condition
MCInLoop == Last(visited) # target /\ counter <= ceiling

\* line 79 testing the model outputs for 0 instead of self_prob for 1
is_stuck_AllZero(current) ==
    \A i \in 1..Len(fixations_of(current)) : fixations_of(current)[i] = 0

\* line 79 with self_prob == 0
is_stuck_Zero(current) == self_prob_of(current) = 0

\* line 79: self_prob == 1
is_stuck(current) == self_prob_of(current) = One

\* lines 79-84: no move is possible
MCStuck ==
    /\ walker = "mc" /\ pc = "loop" /\ MCInLoop
    /\ is_stuck(Last(visited))
    /\ asked' = args \o <<Last(visited)>>
    /\ pc' = "done"
    /\ IF return_bad
       THEN outcome' = "return" /\ message' = <<>>
       ELSE outcome' = "stuck" /\ message' = visited
    /\ UNCHANGED <<inputs, visited, counter>>

\* lines 85-92: draw and make a move
MCMove ==
    /\ walker = "mc" /\ pc = "loop" /\ MCInLoop
    /\ ~is_stuck(Last(visited))
    /\ LET current == Last(visited)
           moves == Append(neighbors_of(current), current)
           cumulative_dist == cumulative_dist_of(current)
       IN  \E mc_number \in MCNumbers :
             visited' = Append(visited, Pick(moves, cumulative_dist, mc_number))
    /\ counter' = counter + 1
    /\ asked' = args \o <<Last(visited)>>
    /\ UNCHANGED <<inputs, pc, outcome, message>>

\* lines 93-96: the loop has ended
MCExit ==
    /\ walker = "mc" /\ pc = "loop" /\ ~MCInLoop
    /\ pc' = "done"
    /\ IF counter > ceiling
       THEN outcome' = "maxmoves"
       ELSE outcome' = "return"
    /\ UNCHANGED <<inputs, visited, counter, asked, message>>

----------------------------------------------------------------------------
(* monte_carlo_metropolis_criterion *)

\* the values np.random.rand() is drawn from: 0, a value below Tiny, and a
\* value on each side of Half
RandNumbers == {0, Tiny \div 2, Half \div 2, Half + (Half \div 2)}

\* line 149 with <= for <
LessThan_OrEqual(mc_number, mc_fixation) ==
    mc_fixation # NaN /\ mc_number <= mc_fixation

\* line 149: mc_number < mc_fixation; a comparison with NaN is false
LessThan(mc_number, mc_fixation) ==
    mc_fixation # NaN /\ mc_number < mc_fixation

\* the loop condition of line 138 without the test of the ceiling
MMCInLoop_NoCeiling == Last(visited) # target

\* the loop condition of line 138 without the test for target
MMCInLoop_NoTarget == counter <= ceiling

\* line 138: the loop condition
MMCInLoop == Last(visited) # target /\ counter <= ceiling

\* lines 149-153 with fails += 1 after the if statement
fails_after_Always(accepted) == counter + 1

\* lines 149-153 with fails += 1 in the other branch
fails_after_Swapped(accepted) == IF accepted THEN counter + 1 ELSE counter

\* lines 149-153: the failure counter after an attempt
fails_after(accepted) == IF accepted THEN counter ELSE counter + 1

\* number of accepted proposals so far
Accepted == Len(visited) - 1 - counter

\* lines 139-153: propose a move, accept or reject it
MMCAttempt ==
    /\ walker = "mmc" /\ pc = "loop" /\ MMCInLoop
    /\ Accepted < MaxAccept
    /\ LET current == Last(visited)
           moves == Append(get_neighbors(current), current)
       IN  \E k \in 1..Len(moves), mc_number \in RandNumbers :
             LET mc_choice == moves[k]
                 mc_fixation == Fixation(model, gpm.phenotypes[current],
                                         gpm.phenotypes[mc_choice])
                 accepted == LessThan(mc_number, mc_fixation)
             IN  /\ visited' = Append(visited, IF accepted THEN mc_choice
                                                ELSE current)
                 /\ counter' = fails_after(accepted)
    /\ asked' = <<Last(visited)>>
    /\ UNCHANGED <<inputs, pc, outcome, message>>

\* lines 154-157: the loop has ended
MMCExit ==
    /\ walker = "mmc" /\ pc = "loop" /\ ~MMCInLoop
    /\ pc' = "done"
    /\ IF counter > ceiling
       THEN outcome' = "maxfails"
       ELSE outcome' = "return"
    /\ UNCHANGED <<inputs, visited, counter, asked, message>>

----------------------------------------------------------------------------
(* MarkovChain.simulate *)

\* binary_wildtype: the wildtype in binary encoding
binary_wildtype(L) == [i \in 1..L |-> 0]

\* list(tm): the genotypes in the order of the matrix' columns
RECURSIVE genotypes(_)
genotypes(L) ==
    IF L = 0 THEN << <<>> >>
    ELSE LET shorter == genotypes(L - 1)
         IN  [i \in 1..Len(shorter) |-> Append(shorter[i], 0)]
             \o [i \in 1..Len(shorter) |-> Append(shorter[i], 1)]

\* A row of the transition matrix, given by the weight of staying (slot 0)
\* and of mutating site i (slot i); every other entry of the row is 0.  The
\* weights of a row sum to RowSum, which stands for 1.
RowSum == 6
Rows(L) == {w \in [0..L -> {0, RowSum \div (L + 1), RowSum}] :
              \/ \E i \in 0..L : w[i] = RowSum /\ \A j \in 0..L : j # i => w[j] = 0
              \/ \A i \in 0..L : w[i] = RowSum \div (L + 1)}

\* tm.ix[row of g, column of h]
Entry(g, h) ==
    IF h = g THEN tm[g][0]
    ELSE IF hamming_distance(g, h) = 1
         THEN tm[g][CHOOSE i \in DOMAIN g : g[i] # h[i]]
         ELSE 0

\* the row of StateCurr as a list
pmf_of(StateCurr) ==
    LET gs == genotypes(gpm.sites)
    IN  [j \in 1..Len(gs) |-> Entry(StateCurr, gs[j])]

\* the values the uniform number behind rv_discrete(...).rvs() is drawn from
Uniforms == 0..(RowSum - 1)

\* line 81 with the drawn index shifted by one against the genotype list
rvs_Shifted(pmf, u) ==
    LET i == CHOOSE i \in 1..Len(pmf) :
                /\ SumSeq(SubSeq(pmf, 1, i)) >= u
                /\ \A j \in 1..(i - 1) : SumSeq(SubSeq(pmf, 1, j)) < u
    IN  (i % Len(pmf)) + 1

\* rv_discrete(values=(gt_indices, pmf)).rvs(): the first index whose
\* cumulative probability reaches the uniform number
rvs(pmf, u) ==
    CHOOSE i \in 1..Len(pmf) :
        /\ SumSeq(SubSeq(pmf, 1, i)) >= u
        /\ \A j \in 1..(i - 1) : SumSeq(SubSeq(pmf, 1, j)) < u

\* line 76 testing the first state of the path
ChainInLoop_Wildtype == visited[1] \notin mutant

\* line 76: StateCurr not in self.mutant
ChainInLoop == Last(visited) \notin mutant

\* lines 76-86: one step of the chain
ChainStep ==
    /\ walker = "chain" /\ pc = "loop"
    /\ ChainInLoop
    /\ Len(visited) < MaxLen
    /\ LET pmf == pmf_of(Last(visited))
       IN  \E u \in Uniforms :
             visited' = Append(visited, genotypes(gpm.sites)[rvs(pmf, u)])
    /\ counter' = counter + 1
    /\ UNCHANGED <<inputs, asked, pc, outcome, message>>

\* lines 76, 89: the mutant is reached, the log is returned
ChainReturn ==
    /\ walker = "chain" /\ pc = "loop"
    /\ ~ChainInLoop
    /\ pc' = "done"
    /\ outcome' = "return"
    /\ UNCHANGED <<inputs, visited, counter, asked, message>>

----------------------------------------------------------------------------
(* The calls. *)

InitWalker ==
    /\ walker \in {"mc", "mmc"}
    /\ \E L \in Sites :
         /\ gpm \in [sites : {L}, phenotypes : [Genotypes(L) -> Phenotypes]]
         /\ source \in Genotypes(L)
         /\ target \in Genotypes(L)
    /\ model \in Models
    /\ ceiling \in -1..MaxCeil
    /\ IF walker = "mc"
       THEN forward \in BOOLEAN /\ return_bad \in BOOLEAN
       ELSE forward = FALSE /\ return_bad = FALSE
    /\ tm = <<>>
    /\ mutant = {}

InitChain ==
    /\ walker = "chain"
    /\ \E L \in Sites :
         /\ gpm = [sites |-> L, phenotypes |-> [g \in Genotypes(L) |-> 1]]
         /\ source = binary_wildtype(L)
         /\ tm \in [Genotypes(L) -> Rows(L)]
         /\ mutant \in (SUBSET Genotypes(L)) \ {{}}
    /\ target = source
    /\ model = "strict"
    /\ ceiling = 0
    /\ forward = FALSE /\ return_bad = FALSE

Init ==
    /\ (InitWalker \/ InitChain)
    /\ visited = <<source>>
    /\ counter = 0
    /\ asked = <<>>
    /\ pc = "loop"
    /\ outcome = "none"
    /\ message = <<>>

Next ==
    \/ MCStuck \/ MCMove \/ MCExit
    \/ MMCAttempt \/ MMCExit
    \/ ChainStep \/ ChainReturn

Spec == Init /\ [][Next]_vars

----------------------------------------------------------------------------
(* Properties. *)

Done == pc = "done"
Returned == pc = "done" /\ outcome = "return"
GraphWalker == walker \in {"mc", "mmc"}

\* C1 as stated: every trajectory a graph walker returns without an error
\* starts at source and ends at target, for every setting of the flags.
C1_AsStated ==
    (GraphWalker /\ Returned) =>
        (visited[1] = source /\ Last(visited) = target)

\* C1, amended: every trajectory a graph walker returns starts at source,
\* and it ends at target unless monte_carlo was called with return_bad set.
C1_ReturnedEndsAtTarget ==
    (GraphWalker /\ Returned) =>
        /\ visited[1] = source
        /\ (~return_bad => Last(visited) = target)

C1_Witness ==
    /\ walker = "mc" /\ Returned /\ ~return_bad
    /\ Len(visited) = 3 /\ Last(visited) = target

\* C2: in monte_carlo a trajectory whose last genotype is target is
\* returned, and the max-moves error is raised only with the last genotype
\* different from target (stated here for max_moves >= 0, where the ceiling
\* is crossed only by moving).
C2_TargetReachedSucceeds ==
    (walker = "mc" /\ ceiling >= 0 /\ Done) =>
        /\ (Last(visited) = target => outcome = "return")
        /\ (outcome = "maxmoves" => Last(visited) # target)

\* C3 as stated: in the Metropolis walker a trajectory whose last genotype
\* is target is returned, and the max-fails error is raised only with the
\* counter above max_fails and the last genotype different from target.
C3_AsStated ==
    (walker = "mmc" /\ Done) =>
        /\ (Last(visited) = target => outcome = "return")
        /\ (outcome = "maxfails" =>
                counter > ceiling /\ Last(visited) # target)

\* C3, amended: the same for max_fails >= 0; at every point of such a call
\* a trajectory ending at target has a counter within the ceiling.
C3_NonNegativeCeiling ==
    (walker = "mmc" /\ ceiling >= 0) =>
        /\ (Last(visited) = target => counter <= ceiling)
        /\ (Done /\ Last(visited) = target => outcome = "return")
        /\ (outcome = "maxfails" =>
                counter > ceiling /\ Last(visited) # target)

C3_Witness ==
    /\ walker = "mmc" /\ ceiling >= 0 /\ Returned
    /\ counter = ceiling /\ Len(visited) > counter + 1
    /\ Last(visited) = target

\* the model output of neighbor i of current, before nan_to_num
Output(current, i) ==
    Fixation(model, gpm.phenotypes[current],
             gpm.phenotypes[neighbors_of(current)[i]])

AllZero(current) ==
    \A i \in 1..Len(neighbors_of(current)) : Output(current, i) \in {0, NaN}

\* every output is 0, NaN or too small to change 1.0 when subtracted
AllNegligible(current) ==
    \A i \in 1..Len(neighbors_of(current)) :
        Output(current, i) \in {0, NaN, Tiny}

\* a loop iteration of monte_carlo begins
MCIteration == walker = "mc" /\ pc = "loop" /\ MCInLoop

\* what a stuck step does: nothing is appended and the call ends
StuckEffect ==
    /\ visited' = visited /\ counter' = counter
    /\ IF return_bad
       THEN outcome' = "return"
       ELSE outcome' = "stuck" /\ message' = visited

\* C4 as stated: a step of monte_carlo is stuck exactly when every neighbor
\* has model output 0 or NaN; a stuck step appends nothing and ends the
\* call, by return under return_bad and by the stuck error otherwise.
C4_AsStated ==
    [][MCIteration =>
         /\ (pc' = "done") <=> AllZero(Last(visited))
         /\ (pc' = "done") => StuckEffect]_vars

\* C4, amended: a step is stuck exactly when every neighbor's output is 0,
\* NaN or so small that the self probability still equals 1 in double
\* arithmetic; the effect of a stuck step is as stated.
C4_StuckWhenSelfProbIsOne ==
    [][MCIteration =>
         /\ (pc' = "done") <=> AllNegligible(Last(visited))
         /\ (pc' = "done") => StuckEffect]_vars

C4_Witness ==
    /\ walker = "mc" /\ outcome = "stuck" /\ message = visited
    /\ Len(visited) > 1
    /\ \E i \in 1..Len(neighbors_of(Last(visited))) :
         Output(Last(visited), i) = Tiny

\* the call starts where it has to end
StartsAtGoal ==
    \/ GraphWalker /\ source = target
    \/ walker = "chain" /\ source \in mutant

\* C5 as stated: with source = target (wildtype in the mutant set) the call
\* returns [source] with no move made, for any integer ceiling.
C5_AsStated ==
    StartsAtGoal =>
        /\ visited = <<source>> /\ counter = 0
        /\ (Done => outcome = "return")

\* C5, amended: the same for any ceiling >= 0.
C5_NonNegativeCeiling ==
    (StartsAtGoal /\ ceiling >= 0) =>
        /\ visited = <<source>> /\ counter = 0
        /\ (Done => outcome = "return")
        /\ (Done \/ ENABLED Next)

C5_Witness ==
    /\ walker = "mmc" /\ source = target /\ ceiling = 0
    /\ Returned /\ visited = <<source>>

\* the 2-site landscape of the concrete scenario
Scenario ==
    /\ walker = "mc" /\ gpm.sites = 2
    /\ gpm.phenotypes = [g \in Genotypes(2) |->
                            IF g = <<1, 1>> THEN 2 ELSE 1]
    /\ source = <<0, 0>> /\ target = <<1, 1>>
    /\ model = "strict"
    /\ ~forward /\ ~return_bad /\ ceiling >= 2

\* C6 as stated: on the 2-site landscape every run of monte_carlo returns
\* a trajectory that ends at 11 after at most 2 moves.
C6_AsStated ==
    (Scenario /\ Done) =>
        /\ outcome = "return" /\ Last(visited) = target
        /\ counter <= 2

\* C6, amended: on the 2-site landscape every run of monte_carlo ends at its
\* first step with the stuck error; no move is made and 11 is not reached.
C6_StuckAtFirstStep ==
    Scenario =>
        /\ visited = <<source>> /\ counter = 0
        /\ (Done => outcome = "stuck" /\ message = <<source>>)
        /\ (Done \/ ENABLED Next)

C6_Witness == Scenario /\ Done /\ outcome = "stuck"

\* the landscape where the only neighbor of source is strictly less fit
Pathological ==
    /\ walker = "mmc" /\ gpm.sites = 1
    /\ gpm.phenotypes[get_neighbors(source)[1]] < gpm.phenotypes[source]
    /\ source # target
    /\ model = "strict"
    /\ ceiling >= 0

\* C7: on the pathological landscape the Metropolis walker rejects every
\* attempt and ends with the max-fails error at the ceiling: every entry of
\* the trajectory is source and the number of rejections is max_fails + 1.
C7_FailsAtCeiling ==
    Pathological =>
        /\ \A i \in 1..Len(visited) : visited[i] = source
        /\ counter = Len(visited) - 1
        /\ counter <= ceiling + 1
        /\ (Done => outcome = "maxfails" /\ counter = ceiling + 1)
        /\ (Done \/ ENABLED Next)

C7_Witness ==
    /\ Pathological /\ Done /\ outcome = "maxfails"
    /\ ceiling = 2 /\ counter = 3 /\ Len(visited) = 4

\* C8: monte_carlo with max_moves >= 0 never makes more than max_moves
\* moves, and its trajectory never holds more than max_moves + 1 genotypes.
C8_MovesWithinCeiling ==
    (walker = "mc" /\ ceiling >= 0) =>
        /\ counter <= ceiling
        /\ Len(visited) <= ceiling + 1

\* C9: with forward set monte_carlo asks the enumerator for the neighbors
\* strictly closer to target, and every move that changes the genotype
\* reduces the Hamming distance to target.
C9_ForwardTowardsTarget ==
    (walker = "mc" /\ forward) =>
        /\ (asked # <<>> => asked[1] = target)
        /\ \A i \in 1..(Len(visited) - 1) :
             visited[i + 1] # visited[i] =>
                hamming_distance(visited[i + 1], target)
                    < hamming_distance(visited[i], target)

\* C10: a path of MarkovChain.simulate starts with the wildtype, holds no
\* genotype of the mutant set before its last entry, grows by one entry per
\* step, and ends with a genotype of the mutant set when it is returned.
C10_PathToFirstMutant ==
    walker = "chain" =>
        /\ visited[1] = binary_wildtype(gpm.sites)
        /\ \A i \in 1..(Len(visited) - 1) : visited[i] \notin mutant
        /\ Len(visited) = counter + 1
        /\ (Returned => Last(visited) \in mutant)

C10_Witness ==
    /\ walker = "chain" /\ Returned
    /\ Len(visited) = 4 /\ Cardinality(mutant) = 2

\* the two genotypes are equal or one mutation apart
Adjacent(a, b) == a = b \/ hamming_distance(a, b) = 1

\* C11: in both graph walkers every two consecutive genotypes of the
\* trajectory are equal or differ by exactly one mutation.
C11_StepsAreAdjacent ==
    GraphWalker =>
        \A i \in 1..(Len(visited) - 1) : Adjacent(visited[i], visited[i + 1])

C11_Witness ==
    /\ walker = "mc" /\ gpm.sites = 2 /\ Len(visited) = 3
    /\ visited[2] # visited[1] /\ visited[3] # visited[2]
    /\ visited[3] # visited[1]

\* number of indices i with trajectory[i+1] == trajectory[i]
Duplicates ==
    Cardinality({i \in 1..(Len(visited) - 1) : visited[i + 1] = visited[i]})

\* the model gives no positive probability to a proposal equal to current
NoSelfFixation ==
    \A g \in Genotypes(gpm.sites) :
        Fixation(model, gpm.phenotypes[g], gpm.phenotypes[g]) \in {0, NaN}

\* an attempt of the Metropolis walker that was rejected
Rejection == walker = "mmc" /\ counter' = counter + 1

\* C12 as stated, its part about the counter: in every state of the
\* Metropolis walker the failure counter equals the number of duplicated
\* steps of the trajectory, for every model.
C12_AsStated == walker = "mmc" => counter = Duplicates

\* C12, amended: every rejected attempt appends a copy of the previous
\* genotype; the failure counter is at most the number of duplicated steps,
\* and equals it when the model gives output 0 or NaN to every proposal
\* equal to the current genotype.
C12_FailsAtMostDuplicates ==
    /\ [](walker = "mmc" =>
            /\ counter <= Duplicates
            /\ (NoSelfFixation => counter = Duplicates))
    /\ [][Rejection => visited' = Append(visited, Last(visited))]_vars

C12_Witness ==
    /\ walker = "mmc" /\ ~NoSelfFixation
    /\ counter = 1 /\ Duplicates = 2

\* the genotype appended by a move of monte_carlo is the current one (the self
\* bucket) or a neighbor whose model output is neither 0 nor NaN
MovedToViable ==
    LET current == Last(visited)
        new == Last(visited')
    IN  \/ new = current
        \/ \E i \in 1..Len(neighbors_of(current)) :
             /\ neighbors_of(current)[i] = new
             /\ Output(current, i) \notin {0, NaN}

\* C13: monte_carlo never appends a neighbor whose model output is 0 or
\* NaN, whatever the draw (0 included) and the position of the neighbor.
C13_NoForbiddenMove ==
    [][(walker = "mc" /\ visited' # visited) => MovedToViable]_vars

\* C14: the trajectory of monte_carlo never holds two equal consecutive
\* genotypes.
C14_NoSelfMove ==
    walker = "mc" =>
        \A i \in 1..(Len(visited) - 1) : visited[i + 1] # visited[i]

\* the most loop iterations a ceiling allows
Budget == IF ceiling >= 0 THEN ceiling + 1 ELSE 0

\* line 90 finds a candidate for every draw
DrawAlwaysSelects(current) ==
    LET cum == cumulative_dist_of(current)
    IN  \A mc_number \in MCNumbers :
            \E i \in 1..Len(cum) : cum[i] >= mc_number

\* C15: every call of monte_carlo terminates: each loop iteration ends the
\* call or adds one to the move counter, the counter never exceeds
\* max_moves + 1, and an iteration that moves finds a candidate to move to
\* for every draw.
C15_MonteCarloTerminates ==
    /\ [](walker = "mc" =>
            /\ counter = Len(visited) - 1
            /\ counter <= Budget
            /\ ((pc = "loop" /\ MCInLoop /\ ~is_stuck(Last(visited))) =>
                    DrawAlwaysSelects(Last(visited))))
    /\ [][(walker = "mc" /\ pc = "loop") =>
            (pc' = "done" \/ counter' = counter + 1)]_vars

C15_Witness ==
    /\ walker = "mc" /\ Done /\ outcome = "maxmoves"
    /\ ceiling = 2 /\ counter = 3 /\ Last(visited) # target

\* an attempt of the Metropolis walker
Attempt == walker = "mmc" /\ visited' # visited

\* C16 as stated: the failure ceiling bounds every run of the Metropolis
\* walker, also when proposals keep being accepted: every attempt that does
\* not reach target adds one to the failure counter.
C16_AsStated ==
    [][(Attempt /\ Last(visited') # target) => counter' = counter + 1]_vars

\* C16, amended: a call of the Metropolis walker ends only with target
\* reached or with the max-fails error; the ceiling bounds the rejected
\* attempts (at most max_fails + 1), and an accepted proposal leaves the
\* failure counter as it was, so accepted attempts are not bounded.
C16_CeilingBoundsRejections ==
    /\ [](walker = "mmc" =>
            /\ counter <= Budget
            /\ (Done => \/ outcome = "return" /\ Last(visited) = target
                        \/ outcome = "maxfails" /\ counter > ceiling))
    /\ [][(Attempt /\ Last(visited') # Last(visited)) =>
            counter' = counter]_vars

\* the walker is back at an earlier genotype with the same counter, the
\* target not reached
C16_Witness ==
    /\ walker = "mmc" /\ pc = "loop" /\ ceiling >= 0
    /\ Len(visited) = 3 /\ counter = 0
    /\ visited[2] # visited[1] /\ visited[3] = visited[1]
    /\ Last(visited) # target

RECURSIVE ReachableFrom(_)
\* the genotypes reachable from those of S through positive entries of tm
ReachableFrom(S) ==
    LET T == S \cup {h \in Genotypes(gpm.sites) :
                        \E g \in S : Entry(g, h) > 0}
    IN  IF T = S THEN S ELSE ReachableFrom(T)

NoMutantReachable == ReachableFrom({source}) \cap mutant = {}

C19_ErrorsCarryTrajectory ==
    (GraphWalker /\ ceiling >= 0 /\ Done /\ outcome # "return") =>
        message = visited

====
